---------------------------- MODULE Spec2Model ----------------------------
(***************************************************************************)
(* A model of the helper functions of studies/demo:                        *)
(*   power_analysis.py   select_candidate_regions                          *)
(*   queries/lib_io.py   YAMLExtensions, SQLExtensions, read_yaml,         *)
(*                       read_sql, read_from_dir                           *)
(*   pandas_utils.py     sanitise_header, add_unique_dates,                *)
(*                       check_all_dates, get_week_starts,                 *)
(*                       aggregate_weekly                                  *)
(* Each function has its own specification: Init draws the call's inputs   *)
(* from bounded sets and the actions are the steps of the call.  The       *)
(* variables of the functions a specification does not run stay idle.      *)
(*                                                                         *)
(* Conventions.  Dates are whole days counted from 1970-01-01.  Fractions  *)
(* are exact pairs <<numerator, denominator>> (the code uses floats).      *)
(* Strings the code takes apart (file names, column names) are sequences   *)
(* of one-character strings.                                               *)
(***************************************************************************)
EXTENDS Integers, Sequences, FiniteSets, TLC

VARIABLES
    \* ---- select_candidate_regions: arguments
    df_sum,                 \* df.sum(axis=0): column (region) -> summed KPI
    candidate_regions_set,  \* the candidate regions, in iteration order
    max_combinations,
    max_group_size,
    size_bounds_frac,       \* a tuple of fractions; <<>> is None or ()
    params,                 \* alpha, power, n_obs, difference_percent
    \* ---- select_candidate_regions: locals
    list_of_params_stats,
    data,
    counter,
    regions_number,
    combos,                 \* what itertools.combinations has yet to yield
    examined,               \* history: the combinations in the order examined
    scr_pc,                 \* "idle", "start", "while", "for", "done", or the error raised
    \* ---- read_from_dir: the directory tree and the arguments
    fs,                     \* the entries below path_to_dir: [path, kind]
    extension,
    on_error_continue,
    max_depth,
    \* ---- read_from_dir: what the call did
    collection,
    failed_yaml,
    opened,                 \* history: the files whose content was read
    rfd_pc,                 \* "idle", "build", "returned", or the error raised
    \* ---- add_unique_dates
    df,                     \* the rows [date, product, store, sales]
    freq_days,
    groupby,
    aud_out,                \* the dataframe returned
    aud_pc,                 \* "idle", "start", "returned", or the error raised
    \* ---- check_all_dates
    series_of_dates,
    freq,
    check_duplicates,
    cad_pc,                 \* "idle", "start", "returned", or the error raised
    \* ---- get_week_starts, aggregate_weekly
    wk_dates,               \* df[col_date]
    drop_incomplete_weeks,
    aggregration_functions,
    wk_starts,              \* what get_week_starts returned
    wk_out,                 \* the dataframe aggregate_weekly returned
    wk_pc,                  \* "idle", "start", "week_starts", "returned", or the error raised
    \* ---- sanitise_header
    columns,                \* df.columns
    columns_original,       \* df.columns at the start of the last call (line 28)
    header_given,           \* history: the header the dataframe was built with
    sh_calls,               \* the calls made so far
    sh_pc                   \* "idle", "start", "returned", or the error raised

scrVars == <<df_sum, candidate_regions_set, max_combinations, max_group_size,
             size_bounds_frac, params, list_of_params_stats, data, counter,
             regions_number, combos, examined, scr_pc>>

rfdVars == <<fs, extension, on_error_continue, max_depth, collection,
             failed_yaml, opened, rfd_pc>>

audVars == <<df, freq_days, groupby, aud_out, aud_pc>>

cadVars == <<series_of_dates, freq, check_duplicates, cad_pc>>

wkVars == <<wk_dates, drop_incomplete_weeks, aggregration_functions, wk_starts,
            wk_out, wk_pc>>

shVars == <<columns, columns_original, header_given, sh_calls, sh_pc>>

vars == <<scrVars, rfdVars, audVars, cadVars, wkVars, shVars>>

notScr == <<rfdVars, audVars, cadVars, wkVars, shVars>>
notRfd == <<scrVars, audVars, cadVars, wkVars, shVars>>

-----------------------------------------------------------------------------
(* Bounds of the model *)

MaxWeight == 2
MaxCombinations == 4
MaxGroupSize == 2
BoundDen == 4
MaxNodes == 3
MaxDepthArg == 1
MaxDate == 3
MaxRows == 3
MaxFreq == 2
MaxDay == 4
MaxSeriesLen == 3
MaxWeekDay == 12
MaxNameLen == 4
MaxPairNameLen == 2

-----------------------------------------------------------------------------
(* Generic helpers *)

Range(s) == {s[i] : i \in DOMAIN s}

RECURSIVE SumOver(_, _)
SumOver(f, S) ==
    IF S = {} THEN 0
    ELSE LET x == CHOOSE y \in S : TRUE IN f[x] + SumOver(f, S \ {x})

\* Fractions <<n, d>> with d > 0, compared exactly.
FracGeq(a, b) == a[1] * b[2] >= b[1] * a[2]
FracLeq(a, b) == a[1] * b[2] <= b[1] * a[2]
FracLt(a, b) == a[1] * b[2] < b[1] * a[2]

-----------------------------------------------------------------------------
(* select_candidate_regions (power_analysis.py) *)

\* The columns of df.  "r4" stands for a market that is never a candidate.
Regions == <<"r1", "r2", "r3">>
Columns == Range(Regions) \cup {"r4"}

\* A keyword argument: None, a scalar or a list.
None == [kind |-> "None", vals |-> <<>>]
Scalar(x) == [kind |-> "scalar", vals |-> <<x>>]
List(xs) == [kind |-> "list", vals |-> xs]

\* to_list: a list is kept, anything else (None too) becomes a one-item list.
to_list(kwarg) == IF kwarg.kind = "list" THEN kwarg.vals
                  ELSE IF kwarg.kind = "None" THEN <<"None">>
                  ELSE kwarg.vals

\* alpha, power and difference_percent are in percent, so alpha is in (0,1)
\* exactly when 0 < alpha < 100.
ParamCases ==
    { [alpha |-> Scalar(5), power |-> None, n_obs |-> Scalar(30), difference_percent |-> Scalar(10)],
      [alpha |-> Scalar(5), power |-> None, n_obs |-> List(<<30, 60>>), difference_percent |-> Scalar(10)],
      [alpha |-> Scalar(5), power |-> List(<<80, 90>>), n_obs |-> Scalar(30), difference_percent |-> None],
      [alpha |-> Scalar(5), power |-> None, n_obs |-> Scalar(30), difference_percent |-> None],
      [alpha |-> Scalar(5), power |-> Scalar(80), n_obs |-> Scalar(30), difference_percent |-> Scalar(10)],
      [alpha |-> Scalar(100), power |-> Scalar(80), n_obs |-> Scalar(30), difference_percent |-> None],
      [alpha |-> List(<<5, 10>>), power |-> Scalar(80), n_obs |-> Scalar(30), difference_percent |-> None] }

\* The candidate sets: every subset of Regions, iterated in the order of
\* Regions.  df_sum ranges over every assignment of sizes, so each iteration
\* order of a Python set is covered up to a renaming of the regions.
RECURSIVE SubSeqs(_)
SubSeqs(s) ==
    IF s = <<>> THEN {<<>>}
    ELSE LET rest == SubSeqs(Tail(s))
         IN rest \cup {<<Head(s)>> \o t : t \in rest}

BoundFracs == {<<k, BoundDen>> : k \in 1..(BoundDen - 1)}

SizeBounds ==
    {<<>>} \cup {<<lo, hi>> : lo \in BoundFracs, hi \in BoundFracs}
           \cup {<<lo, lo, lo>> : lo \in {<<1, BoundDen>>}}

\* The validation of lines 75-85: the error raised, or "ok".
Truthy(t) == t # <<>>

ValidateArgs(p, bounds) ==
    IF p.difference_percent.kind = "None" /\ p.power.kind = "None" THEN "ValueError"
    ELSE IF p.difference_percent.kind # "None" /\ p.power.kind # "None" THEN "ValueError"
    ELSE IF p.alpha.kind # "scalar" THEN "TypeError"   \* a list compared with 0.0
    ELSE IF p.alpha.vals[1] <= 0 \/ p.alpha.vals[1] >= 100 THEN "ValueError"
    ELSE IF Truthy(bounds) /\ Len(bounds) # 2 THEN "ValueError"
    ELSE IF Truthy(bounds) /\ FracGeq(bounds[1], bounds[2]) THEN "ValueError"
    ELSE "ok"

\* itertools.product over the four lists, the last argument varying fastest.
ParamsProduct(p) ==
    LET A == to_list(p.alpha)
        P == to_list(p.power)
        N == to_list(p.n_obs)
        D == to_list(p.difference_percent)
        n == Len(A) * Len(P) * Len(N) * Len(D)
    IN [i \in 1..n |->
          LET j == i - 1 IN
          [alpha |-> A[(j \div (Len(P) * Len(N) * Len(D))) + 1],
           power |-> P[((j \div (Len(N) * Len(D))) % Len(P)) + 1],
           n_obs |-> N[((j \div Len(D)) % Len(N)) + 1],
           difference_percent |-> D[(j % Len(D)) + 1]]]

\* itertools.combinations(s, k), in the order it yields them.
RECURSIVE Combinations(_, _)
Combinations(s, k) ==
    IF k = 0 THEN << <<>> >>
    ELSE IF Len(s) < k THEN <<>>
    ELSE LET with == Combinations(Tail(s), k - 1)
         IN [i \in 1..Len(with) |-> <<Head(s)>> \o with[i]]
            \o Combinations(Tail(s), k)

\* df_regions_size (lines 106-108) summed over `regions` (line 156): the
\* share of the regions in the total over all columns of df.
RegionsSize(sums, regions) ==
    <<SumOver(sums, Range(regions)), SumOver(sums, DOMAIN sums)>>

\* A variant of OutOfBounds that keeps a size equal to a bound.
OutOfBoundsKeepingEqual(regions_size, bounds) ==
    /\ Truthy(bounds)
    /\ \/ FracLt(bounds[2], regions_size)
       \/ FracLt(regions_size, bounds[1])

\* Lines 157-160: whether the combination is skipped.
OutOfBounds(regions_size, bounds) ==
    /\ Truthy(bounds)
    /\ \/ FracGeq(regions_size, bounds[2])
       \/ FracLeq(regions_size, bounds[1])

\* Lines 177-185: one row per entry of list_of_params_stats.
Rows(regions, n, regions_size, lps) ==
    [i \in 1..Len(lps) |->
        [regions |-> regions, regions_number |-> n,
         regions_size |-> regions_size, params_stats |-> lps[i]]]

\* Lines 142 and 191: the budget test.
BudgetReached(c, m) == c >= m

ScrInit ==
    /\ df_sum \in [Columns -> 1..MaxWeight]
    /\ candidate_regions_set \in SubSeqs(Regions)
    /\ max_combinations \in 0..MaxCombinations
    /\ max_group_size \in 0..MaxGroupSize
    /\ size_bounds_frac \in SizeBounds
    /\ params \in ParamCases
    /\ list_of_params_stats = <<>>
    /\ data = <<>>
    /\ counter = 0
    /\ regions_number = 0
    /\ combos = <<>>
    /\ examined = <<>>
    /\ scr_pc = "start"

ScrIdle ==
    /\ df_sum = <<>>
    /\ candidate_regions_set = <<>>
    /\ max_combinations = 0
    /\ max_group_size = 0
    /\ size_bounds_frac = <<>>
    /\ params = None
    /\ list_of_params_stats = <<>>
    /\ data = <<>>
    /\ counter = 0
    /\ regions_number = 0
    /\ combos = <<>>
    /\ examined = <<>>
    /\ scr_pc = "idle"

scrArgs == <<df_sum, candidate_regions_set, max_combinations, max_group_size,
             size_bounds_frac, params>>

\* Lines 75-136: validation, list_of_params_stats and the loop's initial state.
ScrValidate ==
    /\ scr_pc = "start"
    /\ LET err == ValidateArgs(params, size_bounds_frac) IN
       IF err # "ok"
       THEN /\ scr_pc' = err
            /\ UNCHANGED list_of_params_stats
       ELSE /\ scr_pc' = "while"
            /\ list_of_params_stats' = ParamsProduct(params)
    /\ UNCHANGED <<scrArgs, data, counter, regions_number, combos, examined, notScr>>

\* Lines 137-149: the while test, the budget test at the head of the body and
\* the start of the for loop over the combinations of the next size.
ScrWhile ==
    /\ scr_pc = "while"
    /\ regions_number < max_group_size
    /\ IF BudgetReached(counter, max_combinations)
       THEN /\ regions_number' = max_group_size + 1
            /\ combos' = <<>>
            /\ scr_pc' = "while"
       ELSE /\ regions_number' = regions_number + 1
            /\ combos' = Combinations(candidate_regions_set, regions_number + 1)
            /\ scr_pc' = "for"
    /\ UNCHANGED <<scrArgs, list_of_params_stats, data, counter, examined, notScr>>

\* Lines 149-194: one iteration of the for loop.
ScrFor ==
    /\ scr_pc = "for"
    /\ combos # <<>>
    /\ LET regions == Head(combos)
           regions_size == RegionsSize(df_sum, regions)
       IN /\ counter' = counter + 1
          /\ examined' = Append(examined, regions)
          /\ IF OutOfBounds(regions_size, size_bounds_frac)
             THEN \* continue: lines 162-194 are skipped
                  /\ combos' = Tail(combos)
                  /\ UNCHANGED <<data, regions_number, scr_pc>>
             ELSE /\ data' = data \o Rows(regions, regions_number, regions_size,
                                           list_of_params_stats)
                  /\ IF BudgetReached(counter + 1, max_combinations)
                     THEN /\ regions_number' = max_group_size + 1
                          /\ combos' = <<>>
                          /\ scr_pc' = "while"
                     ELSE /\ combos' = Tail(combos)
                          /\ UNCHANGED <<regions_number, scr_pc>>
    /\ UNCHANGED <<scrArgs, list_of_params_stats, notScr>>

\* The for loop is exhausted: back to the while test.
ScrForEnd ==
    /\ scr_pc = "for"
    /\ combos = <<>>
    /\ scr_pc' = "while"
    /\ UNCHANGED <<scrArgs, list_of_params_stats, data, counter,
                   regions_number, combos, examined, notScr>>

\* Lines 196-206: the while loop is left and df_stats is returned.
ScrReturn ==
    /\ scr_pc = "while"
    /\ ~(regions_number < max_group_size)
    /\ scr_pc' = "done"
    /\ UNCHANGED <<scrArgs, list_of_params_stats, data, counter,
                   regions_number, combos, examined, notScr>>

ScrNext == ScrValidate \/ ScrWhile \/ ScrFor \/ ScrForEnd \/ ScrReturn

-----------------------------------------------------------------------------
(* queries/lib_io.py: YAMLExtensions, SQLExtensions, read_yaml, read_sql,  *)
(* read_from_dir                                                           *)

\* Strings as sequences of characters.
s_sql == <<"s", "q", "l">>
s_yml == <<"y", "m", "l">>
s_yaml == <<"y", "a", "m", "l">>
s_txt == <<"t", "x", "t">>
s_q == <<"q">>
s_q_sql == <<"q", ".">> \o s_sql
s_q_yml == <<"q", ".">> \o s_yml
s_q_yaml == <<"q", ".">> \o s_yaml
s_n_txt == <<"n", ".">> \o s_txt

\* x in y for two Python strings: x occurs in y as a substring.
StrIn(x, y) ==
    \E i \in 1..(Len(y) + 1) :
        /\ i + Len(x) - 1 <= Len(y)
        /\ SubSeq(y, i, i + Len(x) - 1) = x

\* The last index of character c in s, 0 when there is none (str.rfind + 1).
RFind(s, c) ==
    LET at == {i \in 1..Len(s) : s[i] = c}
    IN IF at = {} THEN 0 ELSE CHOOSE i \in at : \A j \in at : j <= i

\* pathlib.PurePath.name, .suffix and .stem
PathName(path) == SubSeq(path, RFind(path, "/") + 1, Len(path))

PathSuffix(path) ==
    LET name == PathName(path)
        i == RFind(name, ".")
    IN IF 1 < i /\ i < Len(name) THEN SubSeq(name, i, Len(name)) ELSE <<>>

PathStem(path) ==
    LET name == PathName(path)
        i == RFind(name, ".")
    IN IF 1 < i /\ i < Len(name) THEN SubSeq(name, 1, i - 1) ELSE name

\* VALIDext.value of the two enums: a tuple of two strings for YAMLExtensions
\* (line 12), the one string 'sql' for SQLExtensions (line 30).
YAMLValidValue == <<s_yml, s_yaml>>
SQLValidValue == s_sql

\* `x in cls.VALIDext.value` (lines 22 and 40): membership in the tuple for
\* YAMLExtensions, the substring test of two strings for SQLExtensions.
InValidValue(cls, x) ==
    IF cls = "YAMLExtensions" THEN x \in Range(YAMLValidValue)
    ELSE StrIn(x, SQLValidValue)

\* s[1:]
DropFirst(s) == SubSeq(s, 2, Len(s))

\* _missing_ (lines 15-25 and 33-43).
Missing(cls, file_name_or_extension) ==
    IF \/ InValidValue(cls, file_name_or_extension)
       \/ InValidValue(cls, DropFirst(PathSuffix(file_name_or_extension)))
    THEN "VALIDext" ELSE "OTHERext"

\* cls(value) for a string: the member with that value, else _missing_.  No
\* string equals the tuple that is YAMLExtensions.VALIDext's value.
EnumCall(cls, value) ==
    IF cls = "SQLExtensions" /\ value = SQLValidValue THEN "VALIDext"
    ELSE Missing(cls, value)

\* Lines 96-103: the enum read_from_dir works with.  In the else branch the
\* ValueError is built and dropped, and CURRENTextension stays unbound.
CurrentExtension(ext) ==
    IF EnumCall("YAMLExtensions", ext) = "VALIDext" THEN "YAMLExtensions"
    ELSE IF EnumCall("SQLExtensions", ext) = "VALIDext" THEN "SQLExtensions"
    ELSE "unbound"

\* The tree below path_to_dir: a set of entries [path |-> <<name, ...>>,
\* kind], kind being "dir", or for a file what reading it gives: "text"
\* (something truthy), "empty" (None, '' or {}), "corrupt" (the read raises).
Names == {s_q, s_q_sql, s_q_yml, s_q_yaml, s_n_txt}
FileKinds == {"text", "empty", "corrupt"}
Kinds == FileKinds \cup {"dir"}

Parent(path) == SubSeq(path, 1, Len(path) - 1)
Children(tree, dir) == {e \in tree : Len(e.path) > 0 /\ Parent(e.path) = dir}

\* str(file_or_dir.absolute()): the names joined by "/" below the root.
RECURSIVE FPath(_)
FPath(path) == IF path = <<>> THEN <<>> ELSE FPath(Parent(path)) \o <<"/">> \o path[Len(path)]

\* The nested dict read_from_dir returns: stem -> item, an item being the
\* content of a file (named by the file it came from) or a nested dict.
EmptyDict == [k \in {} |-> {}]
FileItem(path) == [kind |-> "content", of |-> path, items |-> EmptyDict]
DictItem(d) == [kind |-> "dict", of |-> <<>>, items |-> d]
Put(d, k, v) == [x \in DOMAIN d \cup {k} |-> IF x = k THEN v ELSE d[x]]

\* read_yaml / read_sql (lines 46-66) on f_path: what it returns or raises.
ReadFile(cls, e) ==
    IF EnumCall(cls, FPath(e.path)) # "VALIDext" THEN "ValueError"
    ELSE IF e.kind = "dir" THEN "IsADirectoryError"
    ELSE IF e.kind = "corrupt" THEN
        (IF cls = "YAMLExtensions" THEN "YAMLError" ELSE "UnicodeDecodeError")
    ELSE "read"

\* The state of one call of read_from_dir while it loops over iterdir().
NewCall == [status |-> "ok", collection |-> EmptyDict, failed_yaml |-> <<>>, opened |-> {}]

RECURSIVE ReadFromDir(_, _, _, _, _)
RECURSIVE IterDir(_, _, _, _, _, _, _)

\* Lines 109-134 for one entry: the states the call can be in after it.  A
\* set, because the recursive call has one outcome per order of iteration.
LoopBody(tree, acc, e, ext, oec, depth) ==
    LET cls == CurrentExtension(ext)
        stem == PathStem(FPath(e.path))
    IN
    IF e.kind = "dir" /\ depth > 0 THEN
        { IF sub.status # "ok"
          THEN [acc EXCEPT !.status = sub.status,
                           !.opened = acc.opened \cup sub.opened]
          ELSE [acc EXCEPT
                  !.failed_yaml = acc.failed_yaml \o sub.failed_yaml,
                  !.opened = acc.opened \cup sub.opened,
                  !.collection = IF DOMAIN sub.collection # {}
                                 THEN Put(acc.collection, stem, DictItem(sub.collection))
                                 ELSE acc.collection]
          : sub \in ReadFromDir(tree, e.path, ext, oec, depth - 1) }
    ELSE IF cls = "unbound" THEN
        { [acc EXCEPT !.status = "UnboundLocalError"] }
    ELSE IF EnumCall(cls, FPath(e.path)) = "VALIDext" THEN
        LET got == ReadFile(cls, e)
            now == IF e.kind \in FileKinds THEN acc.opened \cup {e.path} ELSE acc.opened
        IN IF got = "read" THEN
               { [acc EXCEPT !.opened = now,
                             !.collection = IF e.kind = "text"
                                            THEN Put(acc.collection, stem, FileItem(e.path))
                                            ELSE acc.collection] }
           ELSE IF oec THEN
               { [acc EXCEPT !.opened = now,
                             !.failed_yaml = Append(acc.failed_yaml, e.path)] }
           ELSE { [acc EXCEPT !.opened = now, !.status = got] }
    ELSE { acc }

\* The for loop of line 109 over the entries `todo` not yet seen, in every
\* order iterdir() may give them; an exception ends the loop.
IterDir(tree, acc, todo, dir, ext, oec, depth) ==
    IF acc.status # "ok" \/ todo = {} THEN {acc}
    ELSE UNION { UNION { IterDir(tree, nxt, todo \ {e}, dir, ext, oec, depth)
                         : nxt \in LoopBody(tree, acc, e, ext, oec, depth) }
                 : e \in todo }

\* read_from_dir (lines 69-136): every outcome of the call.
ReadFromDir(tree, dir, ext, oec, depth) ==
    IterDir(tree, NewCall, Children(tree, dir), dir, ext, oec, depth)

ExtensionArgs == {s_sql, s_yml, s_yaml, s_txt, <<"x", ".">> \o s_txt}

RfdInit ==
    /\ fs = {}
    /\ extension = <<>>
    /\ on_error_continue = FALSE
    /\ max_depth = 0
    /\ collection = EmptyDict
    /\ failed_yaml = <<>>
    /\ opened = {}
    /\ rfd_pc = "build"

RfdIdle ==
    /\ fs = {}
    /\ extension = <<>>
    /\ on_error_continue = FALSE
    /\ max_depth = 0
    /\ collection = EmptyDict
    /\ failed_yaml = <<>>
    /\ opened = {}
    /\ rfd_pc = "idle"

\* The environment: a file or a directory is created below path_to_dir
\* before the call.
RfdCreate ==
    /\ rfd_pc = "build"
    /\ Cardinality(fs) < MaxNodes
    /\ \E dir \in {<<>>} \cup {e.path : e \in {x \in fs : x.kind = "dir"}},
          name \in Names, kind \in Kinds :
          /\ \A e \in fs : e.path # Append(dir, name)
          /\ fs' = fs \cup {[path |-> Append(dir, name), kind |-> kind]}
    /\ UNCHANGED <<extension, on_error_continue, max_depth, collection,
                   failed_yaml, opened, rfd_pc, notRfd>>

\* read_from_dir(path_to_dir, extension, on_error_continue, max_depth)
RfdCall ==
    /\ rfd_pc = "build"
    /\ \E ext \in ExtensionArgs, oec \in BOOLEAN, depth \in 0..MaxDepthArg :
          \E out \in ReadFromDir(fs, <<>>, ext, oec, depth) :
             /\ extension' = ext
             /\ on_error_continue' = oec
             /\ max_depth' = depth
             /\ collection' = out.collection
             /\ failed_yaml' = out.failed_yaml
             /\ opened' = out.opened
             /\ rfd_pc' = IF out.status = "ok" THEN "returned" ELSE out.status
    /\ UNCHANGED <<fs, notRfd>>

RfdNext == RfdCreate \/ RfdCall

-----------------------------------------------------------------------------
(* pandas_utils.py: add_unique_dates *)

\* A missing value: "NaN" in a column of strings, <<>> in the sales column,
\* whose present values are one-item tuples.
NaN == "NaN"
NoValue == <<>>

Products == {"car", "plane"}
Stores == {"north", "south"}
GroupbyArgs == {<<>>, <<"product">>, <<"product", "store">>}

Min(S) == CHOOSE x \in S : \A y \in S : x <= y
Max(S) == CHOOSE x \in S : \A y \in S : y <= x

\* Whether two rows agree on col_time and on the columns of groupby.
SameKey(r, q, by) ==
    /\ r.date = q.date
    /\ \A i \in DOMAIN by : r[by[i]] = q[by[i]]

\* A variant of ValueCountsMax that counts whole rows, not dates per group.
ValueCountsMaxAllColumns(frame, by) ==
    Max({Cardinality({j \in DOMAIN frame :
                        SameKey(frame[i], frame[j], <<"product", "store">>)})
         : i \in DOMAIN frame})

\* Lines 84-93: check_duplicates_obj[col_time].value_counts().max(), the
\* largest number of rows with one date within one groupby combination.
ValueCountsMax(frame, by) ==
    Max({Cardinality({j \in DOMAIN frame : SameKey(frame[i], frame[j], by)})
         : i \in DOMAIN frame})

\* pd.date_range(lo, hi, freq=timedelta(days=f))
DateRange(lo, hi, f) == [k \in 1..(((hi - lo) \div f) + 1) |-> lo + (k - 1) * f]

\* Series.unique(): the values in the order of their first appearance.
RECURSIVE Unique(_)
Unique(s) ==
    IF s = <<>> THEN <<>>
    ELSE LET init == Unique(SubSeq(s, 1, Len(s) - 1))
             last == s[Len(s)]
         IN IF last \in Range(init) THEN init ELSE Append(init, last)

Column(frame, c) == [i \in DOMAIN frame |-> frame[i][c]]

RECURSIVE Flatten(_)
Flatten(ss) == IF ss = <<>> THEN <<>> ELSE Head(ss) \o Flatten(Tail(ss))

\* itertools.product(*lists): tuples, the last list varying fastest.
RECURSIVE Product(_)
Product(lists) ==
    IF lists = <<>> THEN << <<>> >>
    ELSE LET rest == Product(Tail(lists))
         IN Flatten([i \in DOMAIN Head(lists) |->
                        [j \in DOMAIN rest |-> <<Head(lists)[i]>> \o rest[j]]])

\* A variant of RangeFrame with the groupby combinations that occur in df.
RangeFrameOfObserved(frame, dates_rng, by) ==
    LET seen == Unique([i \in DOMAIN frame |-> [k \in DOMAIN by |-> frame[i][by[k]]]])
    IN Flatten([d \in DOMAIN dates_rng |->
                  [j \in DOMAIN seen |-> <<dates_rng[d]>> \o seen[j]]])

\* Lines 115-119: df_range, one tuple (date, groupby values...) per element
\* of the product of dates_rng and the unique values of each groupby column.
RangeFrame(frame, dates_rng, by) ==
    Product(<<dates_rng>> \o [k \in DOMAIN by |-> Unique(Column(frame, by[k]))])

\* df_range.merge(df, on=keys, how='left') for one row of df_range: the rows
\* of df with these keys, or one row with nulls in the other columns.
MergeLeftRow(t, frame, by) ==
    LET hits == SelectSeq(frame,
                    LAMBDA r : /\ r.date = t[1]
                               /\ \A k \in DOMAIN by : r[by[k]] = t[k + 1])
        keyOf(c) == IF \E k \in DOMAIN by : by[k] = c
                    THEN t[(CHOOSE k \in DOMAIN by : by[k] = c) + 1]
                    ELSE NaN
    IN IF hits # <<>> THEN hits
       ELSE << [date |-> t[1], product |-> keyOf("product"),
                store |-> keyOf("store"), sales |-> NoValue] >>

MergeLeft(range_frame, frame, by) ==
    Flatten([i \in DOMAIN range_frame |-> MergeLeftRow(range_frame[i], frame, by)])

\* sort_values(by=col_time): insertion sort on the date.
RECURSIVE SortByDate(_)
SortByDate(frame) ==
    IF frame = <<>> THEN <<>>
    ELSE LET init == SortByDate(SubSeq(frame, 1, Len(frame) - 1))
             last == frame[Len(frame)]
             n == Cardinality({i \in DOMAIN init : init[i].date <= last.date})
         IN SubSeq(init, 1, n) \o <<last>> \o SubSeq(init, n + 1, Len(init))

\* add_unique_dates (lines 84-125): [status, out].
AddUniqueDates(frame, f, by) ==
    LET dates == Range(Column(frame, "date"))
        dates_rng == DateRange(Min(dates), Max(dates), f)
    IN IF ValueCountsMax(frame, by) > 1
       THEN [status |-> "ValueError", out |-> <<>>]
       ELSE IF ~(dates \subseteq Range(dates_rng))
       THEN [status |-> "ValueError", out |-> <<>>]
       ELSE [status |-> "returned",
             out |-> SortByDate(MergeLeft(RangeFrame(frame, dates_rng, by), frame, by))]

RowKeys == [date : 0..MaxDate, product : Products, store : Stores]

AudInit ==
    /\ \E raw \in UNION {[1..n -> RowKeys] : n \in 1..MaxRows} :
          df = [i \in DOMAIN raw |->
                   [date |-> raw[i].date, product |-> raw[i].product,
                    store |-> raw[i].store, sales |-> <<i>>]]
    /\ freq_days \in 1..MaxFreq
    /\ groupby \in GroupbyArgs
    /\ aud_out = <<>>
    /\ aud_pc = "start"

AudIdle ==
    /\ df = <<>>
    /\ freq_days = 1
    /\ groupby = <<>>
    /\ aud_out = <<>>
    /\ aud_pc = "idle"

\* add_unique_dates(df, 'date', freq_days, groupby)
AudCall ==
    /\ aud_pc = "start"
    /\ LET r == AddUniqueDates(df, freq_days, groupby)
       IN /\ aud_pc' = r.status
          /\ aud_out' = r.out
    /\ UNCHANGED <<df, freq_days, groupby, scrVars, rfdVars, cadVars, wkVars, shVars>>

-----------------------------------------------------------------------------
(* pandas_utils.py: check_all_dates *)

\* check_all_dates (lines 140-155): "ok" or the error raised.
CheckAllDates(series, f, dups) ==
    LET n_days_diff == Max(Range(series)) - Min(Range(series))
        n_dates_expected == (n_days_diff \div f) + 1
    IN IF n_days_diff % f # 0 THEN "ValueError"
       ELSE IF Cardinality(Range(series)) < n_dates_expected THEN "ValueError"
       ELSE IF dups /\ Len(series) > n_dates_expected THEN "ValueError"
       ELSE "ok"

CadInit ==
    /\ series_of_dates \in UNION {[1..n -> 0..MaxDay] : n \in 1..MaxSeriesLen}
    /\ freq \in 1..MaxFreq
    /\ check_duplicates \in BOOLEAN
    /\ cad_pc = "start"

CadIdle ==
    /\ series_of_dates = <<>>
    /\ freq = 1
    /\ check_duplicates = FALSE
    /\ cad_pc = "idle"

\* check_all_dates(series_of_dates, freq, check_duplicates)
CadCall ==
    /\ cad_pc = "start"
    /\ cad_pc' = (IF CheckAllDates(series_of_dates, freq, check_duplicates) = "ok"
                  THEN "returned" ELSE "ValueError")
    /\ UNCHANGED <<series_of_dates, freq, check_duplicates,
                   scrVars, rfdVars, audVars, wkVars, shVars>>

-----------------------------------------------------------------------------
(* pandas_utils.py: get_week_starts, aggregate_weekly *)

\* Series.dt.weekday: Monday is 0.  Day 0, 1970-01-01, was a Thursday.
Weekday(d) == (d + 3) % 7

\* A variant of GetWeekStart that counts the weekday from Sunday.
GetWeekStartFromSunday(d) == d - ((Weekday(d) + 1) % 7)

\* get_week_starts (lines 158-163) for one date with day_week_starts='Monday'.
GetWeekStart(d) == d - (Weekday(d) % 7)

RECURSIVE Ascending(_)
Ascending(S) == IF S = {} THEN <<>> ELSE <<Min(S)>> \o Ascending(S \ {Min(S)})

\* What aggregration_functions asks for: a function or a name applied to
\* every column, a dict of columns other than col_date, a dict with col_date.
AggregationArgs == {"callable", "dict", "dict_with_col_date"}

\* aggregate_weekly (lines 189-211): the statuses it can end with and the
\* rows of the frame it returns, [col_date, n_days], n_days being the number
\* of input rows aggregated into the row.
AggregateWeekly(dates, drop, agg) ==
    LET starts == [i \in DOMAIN dates |-> GetWeekStart(dates[i])]
        days_wk == [i \in DOMAIN dates |->
                       Cardinality({j \in DOMAIN dates : starts[j] = starts[i]})]
        kept == {i \in DOMAIN dates : days_wk[i] = 7}                \* line 198
        weeks == Ascending({starts[i] : i \in kept})                 \* line 203
        out == [w \in DOMAIN weeks |->
                   [col_date |-> weeks[w],
                    n_days |-> Cardinality({i \in kept : starts[i] = weeks[w]})]]
        raised(e) == {[status |-> e, out |-> <<>>]}
    IN IF CheckAllDates(dates, 1, TRUE) # "ok" THEN raised("ValueError")   \* line 190
       \* col_date was dropped in line 200 and the dict asks for it
       ELSE IF drop /\ agg = "dict_with_col_date" THEN raised("KeyError")
       \* col_date was kept: a function that cannot aggregate dates raises;
       \* otherwise the rename of line 204 makes a second column col_date and
       \* df[col_date].dt of line 208 raises
       ELSE IF ~drop /\ agg = "callable" THEN raised("TypeError") \cup raised("AttributeError")
       ELSE IF ~drop /\ agg = "dict_with_col_date" THEN raised("AttributeError")
       ELSE IF {Weekday(out[w].col_date) : w \in DOMAIN out} # {0}         \* line 208
       THEN raised("ValueError")
       ELSE {[status |-> "returned", out |-> out]}

WkInit ==
    /\ \E S \in (SUBSET (0..MaxWeekDay)) \ {{}} :
          \E again \in {<<>>, <<Min(S)>>} :
             wk_dates = Ascending(S) \o again
    /\ drop_incomplete_weeks \in BOOLEAN
    /\ aggregration_functions \in AggregationArgs
    /\ wk_starts = <<>>
    /\ wk_out = <<>>
    /\ wk_pc = "start"

WkIdle ==
    /\ wk_dates = <<>>
    /\ drop_incomplete_weeks = FALSE
    /\ aggregration_functions = "callable"
    /\ wk_starts = <<>>
    /\ wk_out = <<>>
    /\ wk_pc = "idle"

\* get_week_starts(df[col_date])
WkGetWeekStarts ==
    /\ wk_pc = "start"
    /\ wk_starts' = [i \in DOMAIN wk_dates |-> GetWeekStart(wk_dates[i])]
    /\ wk_pc' = "week_starts"
    /\ UNCHANGED <<wk_dates, drop_incomplete_weeks, aggregration_functions, wk_out,
                   scrVars, rfdVars, audVars, cadVars, shVars>>

\* aggregate_weekly(df, col_date, aggregration_functions, 'Monday', drop_incomplete_weeks)
WkAggregateWeekly ==
    /\ wk_pc = "start"
    /\ \E r \in AggregateWeekly(wk_dates, drop_incomplete_weeks, aggregration_functions) :
          /\ wk_pc' = r.status
          /\ wk_out' = r.out
    /\ UNCHANGED <<wk_dates, drop_incomplete_weeks, aggregration_functions, wk_starts,
                   scrVars, rfdVars, audVars, cadVars, shVars>>

-----------------------------------------------------------------------------
(* pandas_utils.py: sanitise_header *)

Chars == {"A", "a", "-", " ", "_", "."}

\* Lines 21-22, restricted to Chars.
char_remove == {"."}
char_replace == {"-", " "}

\* str.lower()
Lower(name) == [i \in DOMAIN name |-> IF name[i] = "A" THEN "a" ELSE name[i]]

\* str.translate(translation_table) (lines 24-26)
RECURSIVE Translate(_)
Translate(name) ==
    IF name = <<>> THEN <<>>
    ELSE LET c == Head(name)
         IN (IF c \in char_remove THEN <<>>
             ELSE IF c \in char_replace THEN <<"_">>
             ELSE <<c>>) \o Translate(Tail(name))

\* str.split('_')
RECURSIVE Split(_)
Split(name) ==
    LET at == {i \in DOMAIN name : name[i] = "_"}
    IN IF at = {} THEN <<name>>
       ELSE <<SubSeq(name, 1, Min(at) - 1)>> \o Split(SubSeq(name, Min(at) + 1, Len(name)))

\* '_'.join(parts)
RECURSIVE Join(_)
Join(parts) ==
    IF parts = <<>> THEN <<>>
    ELSE IF Len(parts) = 1 THEN parts[1]
    ELSE parts[1] \o <<"_">> \o Join(Tail(parts))

\* Lines 32-34 for one name.
CollapseUnderscores(name) == Join(SelectSeq(Split(name), LAMBDA x : x # <<>>))

\* A variant of SanitiseName that collapses the underscores before it
\* translates.
SanitiseNameCollapsingFirst(name) == Translate(CollapseUnderscores(Lower(name)))

\* Lines 29-34 for one name.
SanitiseName(name) == CollapseUnderscores(Translate(Lower(name)))

\* sanitise_header (lines 21-39): [status, columns].
SanitiseHeader(cols) ==
    LET columns_new == [i \in DOMAIN cols |-> SanitiseName(cols[i])]
    IN IF Cardinality(Range(columns_new)) < Len(columns_new)
       THEN [status |-> "ValueError", columns |-> cols]
       ELSE [status |-> "returned", columns |-> columns_new]

RECURSIVE StringsUpTo(_)
StringsUpTo(n) ==
    IF n = 0 THEN {<<>>}
    ELSE LET shorter == StringsUpTo(n - 1)
         IN shorter \cup {Append(s, c) : s \in shorter, c \in Chars}

\* The headers: one column with a name of up to MaxNameLen characters, or two
\* columns with names of up to MaxPairNameLen characters.
Headers ==
    {<<a>> : a \in StringsUpTo(MaxNameLen)}
    \cup {<<a, b>> : a \in StringsUpTo(MaxPairNameLen), b \in StringsUpTo(MaxPairNameLen)}

ShInit ==
    /\ columns \in Headers
    /\ header_given = columns
    /\ columns_original = <<>>
    /\ sh_calls = 0
    /\ sh_pc = "start"

ShIdle ==
    /\ columns = <<>>
    /\ header_given = <<>>
    /\ columns_original = <<>>
    /\ sh_calls = 0
    /\ sh_pc = "idle"

\* sanitise_header(df), on a dataframe whose last call, if any, succeeded.
\* Two calls are followed.
ShCall ==
    /\ sh_pc \in {"start", "returned"}
    /\ sh_calls < 2
    /\ LET r == SanitiseHeader(columns)
       IN /\ columns' = r.columns
          /\ sh_pc' = r.status
    /\ columns_original' = columns
    /\ sh_calls' = sh_calls + 1
    /\ UNCHANGED <<header_given, scrVars, rfdVars, audVars, cadVars, wkVars>>

-----------------------------------------------------------------------------
(* Properties of select_candidate_regions *)

ScrRunning == scr_pc \in {"while", "for", "done"}

\* The share of `regions` in the total over all columns of df.
ShareOfMarket(regions) ==
    <<SumOver(df_sum, Range(regions)), SumOver(df_sum, Columns)>>

HasRows(regions) == \E i \in DOMAIN data : data[i].regions = regions

\* The place of a combination in the order of examination.
ExaminedAt(regions) == CHOOSE j \in DOMAIN examined : examined[j] = regions

\* C1: when select_candidate_regions returns, its combination counter does
\* not exceed max_combinations, also when size_bounds_frac rejects
\* combinations, and no result row belongs to a combination examined after
\* the budget was reached.
C1_BudgetNeverExceeded ==
    scr_pc = "done" =>
        /\ counter <= max_combinations
        /\ \A i \in DOMAIN data : ExaminedAt(data[i].regions) <= max_combinations

\* C10 as claimed: with size_bounds_frac = (lo, hi), a combination is dropped
\* exactly when its share of the market is outside the bounds, a share equal
\* to a bound counting as inside; every examined combination inside produces
\* rows and every row has regions_size within the bounds.
C10_EqualCountsAsInside ==
    (scr_pc = "done" /\ Truthy(size_bounds_frac)) =>
        /\ \A j \in DOMAIN examined :
              HasRows(examined[j]) <=>
                  /\ FracLeq(size_bounds_frac[1], ShareOfMarket(examined[j]))
                  /\ FracLeq(ShareOfMarket(examined[j]), size_bounds_frac[2])
        /\ \A i \in DOMAIN data :
              /\ FracLeq(size_bounds_frac[1], data[i].regions_size)
              /\ FracLeq(data[i].regions_size, size_bounds_frac[2])

\* C10 as amended: with size_bounds_frac = (lo, hi), a combination is dropped
\* exactly when its share of the market (of the total over all columns of df)
\* is <= lo or >= hi, a share equal to a bound counting as outside; every
\* examined combination with lo < share < hi produces rows, and every row
\* carries that share as regions_size, strictly between the bounds.
C10_DroppedIffNotStrictlyInside ==
    (ScrRunning /\ Truthy(size_bounds_frac)) =>
        /\ \A j \in DOMAIN examined :
              HasRows(examined[j]) <=>
                  /\ FracLt(size_bounds_frac[1], ShareOfMarket(examined[j]))
                  /\ FracLt(ShareOfMarket(examined[j]), size_bounds_frac[2])
        /\ \A i \in DOMAIN data :
              /\ data[i].regions_size = ShareOfMarket(data[i].regions)
              /\ FracLt(size_bounds_frac[1], data[i].regions_size)
              /\ FracLt(data[i].regions_size, size_bounds_frac[2])

\* A run with bounds that returned rows and dropped a combination whose
\* share equals one of the bounds.
C10_Witness ==
    /\ scr_pc = "done"
    /\ Truthy(size_bounds_frac)
    /\ data # <<>>
    /\ \E j \in DOMAIN examined :
          /\ ~HasRows(examined[j])
          /\ \/ ShareOfMarket(examined[j])[1] * size_bounds_frac[1][2]
                  = size_bounds_frac[1][1] * ShareOfMarket(examined[j])[2]
             \/ ShareOfMarket(examined[j])[1] * size_bounds_frac[2][2]
                  = size_bounds_frac[2][1] * ShareOfMarket(examined[j])[2]

\* The values of a keyword argument given as a scalar, as a list or not at all.
ValuesOf(kwarg) == IF kwarg.kind = "None" THEN {"None"} ELSE Range(kwarg.vals)

HowMany(kwarg) == IF kwarg.kind = "list" THEN Len(kwarg.vals) ELSE 1

\* Arguments that are in order, alpha being a scalar or a list of values in
\* (0,1): exactly one of power and difference_percent is given and the bounds,
\* if any, are a pair lo < hi.
WellFormedArgs ==
    /\ (params.power.kind = "None") # (params.difference_percent.kind = "None")
    /\ params.alpha.kind # "None"
    /\ \A a \in Range(params.alpha.vals) : 0 < a /\ a < 100
    /\ Truthy(size_bounds_frac) =>
          /\ Len(size_bounds_frac) = 2
          /\ FracLt(size_bounds_frac[1], size_bounds_frac[2])

\* The call takes alpha, power, n_obs and difference_percent as scalars or
\* lists: well-formed arguments raise nothing.
AcceptsScalarsAndLists ==
    WellFormedArgs => scr_pc \notin {"ValueError", "TypeError"}

\* The subsets of the candidate regions of size 1..max_group_size.
SubsetsUpToMaxGroupSize ==
    {s \in SUBSET Range(candidate_regions_set) :
        1 <= Cardinality(s) /\ Cardinality(s) <= max_group_size}

BudgetNotReached == scr_pc = "done" /\ counter < max_combinations

\* Every subset is examined exactly once, the smaller ones first.
EverySubsetExaminedOnce ==
    BudgetNotReached =>
        /\ {Range(examined[j]) : j \in DOMAIN examined} = SubsetsUpToMaxGroupSize
        /\ Len(examined) = Cardinality(SubsetsUpToMaxGroupSize)
        /\ \A i, j \in DOMAIN examined :
              i < j => Len(examined[i]) <= Len(examined[j])

RowsOf(regions) == {i \in DOMAIN data : data[i].regions = regions}

\* The cartesian product of the values of the four arguments.
CartesianProduct ==
    {[alpha |-> a, power |-> p, n_obs |-> n, difference_percent |-> d] :
        a \in ValuesOf(params.alpha), p \in ValuesOf(params.power),
        n \in ValuesOf(params.n_obs), d \in ValuesOf(params.difference_percent)}

\* A combination that is kept has one row per element of the product, and
\* its rows carry the size of the subset as regions_number.
OneRowPerElementOfProduct ==
    BudgetNotReached =>
        /\ \A j \in DOMAIN examined :
              HasRows(examined[j]) =>
                  /\ Cardinality(RowsOf(examined[j]))
                       = HowMany(params.alpha) * HowMany(params.power)
                           * HowMany(params.n_obs) * HowMany(params.difference_percent)
                  /\ {data[i].params_stats : i \in RowsOf(examined[j])} = CartesianProduct
        /\ \A i \in DOMAIN data :
              /\ data[i].regions_number = Cardinality(Range(data[i].regions))
              /\ \E j \in DOMAIN examined : examined[j] = data[i].regions

\* C12: select_candidate_regions accepts alpha, power, n_obs and
\* difference_percent each as a scalar or a list, and when it returns with the
\* combination budget not reached it has examined every non-empty subset of
\* candidate_regions_set of size 1..max_group_size exactly once, in
\* non-decreasing order of size, each kept combination having exactly one
\* result row per element of the cartesian product of the four arguments'
\* values, with regions_number equal to the size of the subset.
C12_EverySubsetOncePerParameterProduct ==
    /\ AcceptsScalarsAndLists
    /\ EverySubsetExaminedOnce
    /\ OneRowPerElementOfProduct

-----------------------------------------------------------------------------
(* Properties of read_from_dir *)

RfdCalled == rfd_pc \notin {"idle", "build"}

SupportedExtensions == {s_yml, s_yaml, s_sql}

\* The suffixes of the files an extension asks for.
WantedSuffixes(ext) ==
    IF ext \in {s_yml, s_yaml} THEN {<<".">> \o s_yml, <<".">> \o s_yaml}
    ELSE {<<".">> \o ext}

IsPrefix(p, q) == Len(p) <= Len(q) /\ SubSeq(q, 1, Len(p)) = p

\* The files whose content a nested dict holds.
RECURSIVE ContentsOf(_)
ContentsOf(d) ==
    UNION { IF d[k].kind = "content" THEN {d[k].of} ELSE ContentsOf(d[k].items)
            : k \in DOMAIN d }

\* The item a nested dict holds for the file or directory at `path`, looked
\* up by the stems of the names on the path; NoItem when there is none.
NoItem == [kind |-> "none", of |-> <<>>, items |-> EmptyDict]

RECURSIVE Lookup(_, _)
Lookup(d, path) ==
    LET k == PathStem(<<"/">> \o Head(path)) IN
    IF k \notin DOMAIN d THEN NoItem
    ELSE IF Len(path) = 1 THEN d[k]
    ELSE IF d[k].kind = "dict" THEN Lookup(d[k].items, Tail(path))
    ELSE NoItem

\* C2: read_from_dir with an extension that is neither 'yml', 'yaml' nor
\* 'sql' raises ValueError, whatever the directory holds, and reads no file.
C2_UnsupportedExtensionRaises ==
    (RfdCalled /\ extension \notin SupportedExtensions) =>
        (rfd_pc = "ValueError" /\ opened = {})

\* C3: with a YAML or the SQL extension and max_depth = d, the collection
\* holds only files at most d subdirectory levels below the root, and a
\* subdirectory more than d levels below the root is ignored: nothing below
\* it is read, it adds no entry, it is not reported as failed and it causes
\* no error.
C3_DeepDirectoriesIgnored ==
    (RfdCalled /\ extension \in SupportedExtensions) =>
        /\ \A p \in ContentsOf(collection) : Len(p) - 1 <= max_depth
        /\ \A e \in fs :
              (e.kind = "dir" /\ Len(e.path) > max_depth) =>
                  /\ \A p \in opened : ~IsPrefix(e.path, p)
                  /\ Lookup(collection, e.path).kind # "dict"
                  /\ \A i \in DOMAIN failed_yaml : failed_yaml[i] # e.path
                  /\ rfd_pc # "IsADirectoryError"

\* C4: with a YAML or the SQL extension, a call that returns holds every
\* non-empty file of that extension within the depth limit under its stem
\* with its own content, and no file with another suffix or with no suffix
\* is ever read.
C4_AllAndOnlyTheExtension ==
    (RfdCalled /\ extension \in SupportedExtensions) =>
        /\ rfd_pc = "returned" =>
              \A e \in fs :
                  ( /\ e.kind = "text"
                    /\ Len(e.path) - 1 <= max_depth
                    /\ PathSuffix(FPath(e.path)) \in WantedSuffixes(extension) )
                  => Lookup(collection, e.path) = FileItem(e.path)
        /\ \A p \in opened : PathSuffix(FPath(p)) \in WantedSuffixes(extension)

-----------------------------------------------------------------------------
(* Properties of add_unique_dates *)

AudDone == aud_pc \in {"returned", "ValueError"}

DatesOfDf == {df[i].date : i \in DOMAIN df}

\* Two rows of df with one date within one groupby combination.
DuplicateDates ==
    \E i, j \in DOMAIN df :
        /\ i # j
        /\ df[i].date = df[j].date
        /\ \A k \in DOMAIN groupby : df[i][groupby[k]] = df[j][groupby[k]]

\* A date of df that is not min + k * freq_days.
DatesOffGrid == \E d \in DatesOfDf : (d - Min(DatesOfDf)) % freq_days # 0

\* C5: add_unique_dates raises ValueError, and returns no dataframe, whenever
\* a date occurs more than once within one groupby combination (in the whole
\* frame without groupby) and whenever some date is not min + k * freq_days.
C5_DuplicateOrOffGridRaises ==
    (AudDone /\ (DuplicateDates \/ DatesOffGrid)) =>
        (aud_pc = "ValueError" /\ aud_out = <<>>)

\* A call that raised for dates that repeat within a product, all on the grid.
C5_Witness ==
    /\ aud_pc = "ValueError"
    /\ groupby = <<"product">>
    /\ DuplicateDates
    /\ ~DatesOffGrid

\* The grid min, min + freq_days, ..., max.
DateGrid ==
    {d \in Min(DatesOfDf)..Max(DatesOfDf) : (d - Min(DatesOfDf)) % freq_days = 0}

\* The combinations of the unique values of the groupby columns.
GroupCombinations ==
    {t \in [DOMAIN groupby -> Products \cup Stores] :
        \A k \in DOMAIN groupby : \E i \in DOMAIN df : df[i][groupby[k]] = t[k]}

GroupOf(row) == [k \in DOMAIN groupby |-> row[groupby[k]]]

\* C6: when add_unique_dates returns, the output has exactly one row for
\* every pair of a date of the grid and a combination of the unique values
\* of the groupby columns; every input row is in it unchanged, the rows added
\* have nulls in all other columns, and the rows are ordered by date.
C6_OneRowPerDateAndCombination ==
    aud_pc = "returned" =>
        /\ \A d \in DateGrid, c \in GroupCombinations :
              Cardinality({j \in DOMAIN aud_out :
                              aud_out[j].date = d /\ GroupOf(aud_out[j]) = c}) = 1
        /\ Len(aud_out) = Cardinality(DateGrid) * Cardinality(GroupCombinations)
        /\ \A i \in DOMAIN df : \E j \in DOMAIN aud_out : aud_out[j] = df[i]
        /\ \A j \in DOMAIN aud_out :
              (\A i \in DOMAIN df : aud_out[j] # df[i]) =>
                  /\ aud_out[j].sales = NoValue
                  /\ \A c \in {"product", "store"} \ Range(groupby) : aud_out[j][c] = NaN
        /\ \A j \in 1..(Len(aud_out) - 1) : aud_out[j].date <= aud_out[j + 1].date

\* A call with two groupby columns that returned more rows than it was given.
C6_Witness ==
    /\ aud_pc = "returned"
    /\ groupby = <<"product", "store">>
    /\ Len(df) >= 2
    /\ Len(aud_out) > Len(df)
    /\ Cardinality(DateGrid) > Cardinality(DatesOfDf)

-----------------------------------------------------------------------------
(* Properties of check_all_dates *)

\* C7: check_all_dates returns without raising only if the series holds
\* every date min + k * freq up to max, for every freq >= 1, and with
\* check_duplicates only if, in addition, no date occurs twice.
C7_ReturnsOnlyOnCompleteGrid ==
    cad_pc = "returned" =>
        LET dates == Range(series_of_dates) IN
        /\ \A d \in Min(dates)..Max(dates) :
              ((d - Min(dates)) % freq = 0) => d \in dates
        /\ check_duplicates => Cardinality(dates) = Len(series_of_dates)

-----------------------------------------------------------------------------
(* Properties of get_week_starts and aggregate_weekly *)

\* 1970-01-05, day 4, was a Monday.
IsMonday(d) == \E k \in -2..((d \div 7) + 1) : d = 4 + 7 * k

\* C8: get_week_starts returns for every date the latest Monday on or before
\* it, 0 to 6 days earlier, and every col_date of a dataframe aggregate_weekly
\* returns is a Monday.
C8_WeekStartsAreMondays ==
    /\ wk_pc = "week_starts" =>
          \A i \in DOMAIN wk_dates :
              /\ IsMonday(wk_starts[i])
              /\ wk_starts[i] <= wk_dates[i]
              /\ wk_dates[i] - wk_starts[i] <= 6
    /\ wk_pc = "returned" =>
          \A w \in DOMAIN wk_out : IsMonday(wk_out[w].col_date)

\* aggregate_weekly returned a week from dates that are not all Mondays.
C8_Witness ==
    /\ wk_pc = "returned"
    /\ wk_out # <<>>
    /\ \E i \in DOMAIN wk_dates : ~IsMonday(wk_dates[i])

\* The Monday-started weeks with a date in the input, each named by its
\* Monday, and those of which all 7 dates are in the input.
WeeksWithDates ==
    {m \in (0 - 6)..MaxWeekDay :
        IsMonday(m) /\ \E i \in DOMAIN wk_dates : m <= wk_dates[i] /\ wk_dates[i] <= m + 6}

CompleteWeeks ==
    {m \in WeeksWithDates : \A k \in 0..6 : \E i \in DOMAIN wk_dates : wk_dates[i] = m + k}

DatesInWeek(m) ==
    Cardinality({i \in DOMAIN wk_dates : m <= wk_dates[i] /\ wk_dates[i] <= m + 6})

\* C11: in aggregate_weekly drop_incomplete_weeks decides whether incomplete
\* weeks are discarded: with True the output has a row for exactly the
\* Monday-started weeks of which all 7 dates are in the input, with False the
\* weeks with fewer than 7 dates are kept and aggregated as well.
C11_FlagDecidesIncompleteWeeks ==
    wk_pc = "returned" =>
        LET expected == IF drop_incomplete_weeks THEN CompleteWeeks ELSE WeeksWithDates
        IN /\ {wk_out[w].col_date : w \in DOMAIN wk_out} = expected
           /\ \A w \in DOMAIN wk_out : wk_out[w].n_days = DatesInWeek(wk_out[w].col_date)

-----------------------------------------------------------------------------
(* Properties of sanitise_header *)

\* C9: sanitise_header is idempotent: after an application that succeeds, a
\* second one succeeds and leaves the column names as the first left them.
C9_SanitiseHeaderIdempotent ==
    sh_calls = 2 => (sh_pc = "returned" /\ columns = columns_original)

\* A second call on a header that the first call changed.
C9_Witness ==
    /\ sh_calls = 2
    /\ sh_pc = "returned"
    /\ Len(columns) = 2
    /\ columns # header_given
    /\ \A i \in DOMAIN columns : columns[i] # <<>>

-----------------------------------------------------------------------------
(* Specifications *)

InitSelect == ScrInit /\ RfdIdle /\ AudIdle /\ CadIdle /\ WkIdle /\ ShIdle
SpecSelect == InitSelect /\ [][ScrNext]_vars

InitReadDir == ScrIdle /\ RfdInit /\ AudIdle /\ CadIdle /\ WkIdle /\ ShIdle
SpecReadDir == InitReadDir /\ [][RfdNext]_vars

InitAddDates == ScrIdle /\ RfdIdle /\ AudInit /\ CadIdle /\ WkIdle /\ ShIdle
SpecAddDates == InitAddDates /\ [][AudCall]_vars

InitCheckDates == ScrIdle /\ RfdIdle /\ AudIdle /\ CadInit /\ WkIdle /\ ShIdle
SpecCheckDates == InitCheckDates /\ [][CadCall]_vars

WkNext == WkGetWeekStarts \/ WkAggregateWeekly
InitWeekly == ScrIdle /\ RfdIdle /\ AudIdle /\ CadIdle /\ WkInit /\ ShIdle
SpecWeekly == InitWeekly /\ [][WkNext]_vars

InitHeader == ScrIdle /\ RfdIdle /\ AudIdle /\ CadIdle /\ WkIdle /\ ShInit
SpecHeader == InitHeader /\ [][ShCall]_vars

=============================================================================
